---- MODULE Spec2Model ----
(***************************************************************************)
(* Model of the sardine scheduling core.                                   *)
(*                                                                         *)
(* Part 1: Scheduler (src/sardine/scheduler/scheduler.py).  Several        *)
(* Scheduler objects share a pool of AsyncRunner instances; some runner    *)
(* instances carry the same name.  The AsyncRunner class itself is not     *)
(* part of the sources at hand: its start/stop/is_running/reload/          *)
(* allow_interval_correction methods are modelled from the specification   *)
(* (sections 4.2 and 5), with the task life cycle of a cooperative event   *)
(* loop: a cancelled task stays "not done" until the loop runs it again.   *)
(* What reload() and allow_interval_correction() do inside a runner is not *)
(* modelled here; the calls a runner receives in one operation are.        *)
(*                                                                         *)
(* Part 2: BaseClock (src/sardine/base/clock.py) with the Time object it   *)
(* reads through its fish bowl.  Time values are binary floating-point     *)
(* numbers with a MantBits-bit mantissa, counted in quanta of              *)
(* 1 / (10 * 2^FracBits) second, so that every sum, difference and         *)
(* remainder is rounded as the interpreter rounds it.  The concrete clock  *)
(* (run(), tempo, beat, beat_duration, internal_time, internal_origin) is  *)
(* not part of the sources at hand and is modelled from the specification  *)
(* (sections 3 and 4.1).  The fish bowl's life cycle and dispatch are      *)
(* modelled from sections 4.4 and 5.                                       *)
(*                                                                         *)
(* Part 3: Player (src/sardine_core/handlers/player.py) driving its        *)
(* AsyncRunner through the bowl's scheduler.  The runner's state stack and *)
(* core loop (deadline, sleep, call of the top state, reload) are modelled *)
(* from the specification (section 4.2); periods are counted in beats and  *)
(* turned into seconds by the clock's get_beat_time.                       *)
(***************************************************************************)
EXTENDS Integers, Sequences, FiniteSets, TLC

\* ---------------------------------------------------------------- bounds
NumSchedulers == 2
NumRunners == 3
NumNames == 2

Schedulers == 1..NumSchedulers
Runners == 1..NumRunners
Names == 0..(NumNames - 1)

\* Python's None, for a runner reference and for a scheduler reference.
None == 0

\* runner.name: fixed at construction; instances r and r + NumNames share it.
NameOf(r) == r % NumNames

\* Events a handler hook may be handed: the one the Scheduler registers for,
\* and one it does not.
Events == {"tempo_update", "stop"}

VARIABLES
    runners,     \* Scheduler._runners: per scheduler, a dict in insertion order
    scheduler,   \* AsyncRunner.scheduler back-reference (None or a scheduler)
    task,        \* AsyncRunner background task: "idle", "running", "cancelling"
    started,     \* history: per scheduler, runners started and not yet removed
    last,        \* history: the last operation, its arguments and its outcome
    pre,         \* history: the state in which the last operation was called
    clock,       \* BaseClock fields and the Time object (origin, shift)
    now,         \* the monotonic time source read by the clock's run() task
    cl,          \* history: the last clock operation, its outcome, the clock before
    bowl,        \* FishBowl: life-cycle state, subscriptions, the last call
    rn           \* per runner: state stack and loop position; the player's calls

vars == <<runners, scheduler, task, started, last, pre, clock, now, cl, bowl, rn>>

\* ------------------------------------------------------- dict (ordered map)
DictHas(d, k) == \E i \in 1..Len(d) : d[i].key = k

DictGet(d, k) ==
    IF DictHas(d, k)
    THEN d[CHOOSE i \in 1..Len(d) : d[i].key = k].val
    ELSE None

DictSet(d, k, v) ==
    IF DictHas(d, k)
    THEN [i \in 1..Len(d) |-> IF d[i].key = k THEN [key |-> k, val |-> v] ELSE d[i]]
    ELSE Append(d, [key |-> k, val |-> v])

DictDel(d, k) == SelectSeq(d, LAMBDA e : e.key # k)

DictValues(d) == [i \in 1..Len(d) |-> d[i].val]

DictValueSet(d) == {d[i].val : i \in 1..Len(d)}

\* ------------------------------------------------ AsyncRunner (from the spec)
IsRunning(t, r) == t[r] \in {"running", "cancelling"}

\* start(): spawn the background task unless one is already running.
RunnerStart(st, r) ==
    IF IsRunning(st.task, r)
    THEN st
    ELSE [st EXCEPT !.task[r] = "running", !.spawned = @ \cup {r}]

\* stop(): cancel the background task; it ends at its next suspension.
RunnerStop(st, r) ==
    IF IsRunning(st.task, r)
    THEN [st EXCEPT !.task[r] = "cancelling"]
    ELSE st

\* reload(): signal the loop to reread the top state.
RunnerReload(st, r) ==
    [st EXCEPT !.reloadCalls[r] = @ + 1]

\* allow_interval_correction(): arm the one-shot flag.
RunnerAllowIntervalCorrection(st, r) ==
    [st EXCEPT !.correctCalls[r] = @ + 1]

\* ------------------------------------------------------------- Scheduler
GetRunner(st, s, name) == DictGet(st.runners[s], name)

Raise(st, msg) == [st EXCEPT !.err = msg]

\* Variant: the cross-scheduler check of start_runner left out.
StartRunningElsewhere_Never(st, s, r) == FALSE

StartRunningElsewhere(st, s, r) ==
    /\ IsRunning(st.task, r)
    /\ st.scheduler[r] # None
    /\ st.scheduler[r] # s

\* Variant: the name check of start_runner left out.
StartNameConflict_Never(st, s, r) == FALSE

\* Variant: any runner already under the name is a conflict, the same instance too.
StartNameConflict_AnyOld(st, s, r) == GetRunner(st, s, NameOf(r)) # None

StartNameConflict(st, s, r) ==
    LET old == GetRunner(st, s, NameOf(r))
    IN  old # None /\ old # r

\* Variant: the runner is attached and started but never put into the dict.
StartRunnerInsert_NoInsert(st, s, r) ==
    RunnerStart(
        [st EXCEPT !.scheduler[r] = s,
                   !.started[s] = @ \cup {r}],
        r)

\* Variant: the dict entry is written and the runner started, the
\* back-reference left as it was.
StartRunnerInsert_NoBackReference(st, s, r) ==
    RunnerStart(
        [st EXCEPT !.runners[s] = DictSet(@, NameOf(r), r),
                   !.started[s] = @ \cup {r}],
        r)

StartRunnerInsert(st, s, r) ==
    RunnerStart(
        [st EXCEPT !.runners[s] = DictSet(@, NameOf(r), r),
                   !.scheduler[r] = s,
                   !.started[s] = @ \cup {r}],
        r)

\* Variant: the back-reference is assigned before the name check.
StartRunner_LateCheck(st, s, r) ==
    IF StartRunningElsewhere(st, s, r)
    THEN Raise(st, "other_scheduler")
    ELSE IF StartNameConflict(st, s, r)
    THEN Raise([st EXCEPT !.scheduler[r] = s], "name_conflict")
    ELSE StartRunnerInsert(st, s, r)

StartRunner(st, s, r) ==
    IF StartRunningElsewhere(st, s, r)
    THEN Raise(st, "other_scheduler")
    ELSE IF StartNameConflict(st, s, r)
    THEN Raise(st, "name_conflict")
    ELSE StartRunnerInsert(st, s, r)

\* Variant: the cross-scheduler check of stop_runner left out.
StopRunningElsewhere_Never(st, s, r) == FALSE

StopRunningElsewhere(st, s, r) ==
    /\ IsRunning(st.task, r)
    /\ st.scheduler[r] # None
    /\ st.scheduler[r] # s

\* Variant: the entry is removed by name, whatever instance it holds.
StopRunnerRemoves_ByName(st, s, r) == GetRunner(st, s, NameOf(r)) # None

StopRunnerRemoves(st, s, r) == GetRunner(st, s, NameOf(r)) = r

\* Variant: an unconditional del, a KeyError when the name is absent.
StopRunnerBody_DelAlways(st, s, r) ==
    LET stopped == RunnerStop(st, r)
        unreg == [stopped EXCEPT !.started[s] = @ \ {r}]
    IN  IF DictHas(unreg.runners[s], NameOf(r))
        THEN [unreg EXCEPT !.runners[s] = DictDel(@, NameOf(r))]
        ELSE Raise(unreg, "key_error")

StopRunnerBody(st, s, r) ==
    LET stopped == RunnerStop(st, r)
        unreg == [stopped EXCEPT !.started[s] = @ \ {r}]
    IN  IF StopRunnerRemoves(unreg, s, r)
        THEN [unreg EXCEPT !.runners[s] = DictDel(@, NameOf(r))]
        ELSE unreg

StopRunner(st, s, r) ==
    IF StopRunningElsewhere(st, s, r)
    THEN Raise(st, "other_scheduler")
    ELSE StopRunnerBody(st, s, r)

\* reset(): stop_runner on a snapshot of the values; an error ends the loop.
RECURSIVE ResetLoop(_, _, _)
ResetLoop(st, s, rs) ==
    IF rs = <<>> \/ st.err # "none"
    THEN st
    ELSE ResetLoop(StopRunner(st, s, Head(rs)), s, Tail(rs))

Reset(st, s) == ResetLoop(st, s, DictValues(st.runners[s]))

\* Variant: reload() alone, the interval correction never armed.
ReloadOne_NoCorrection(st, r, interval_correction) == RunnerReload(st, r)

\* Variant: the runner is not told to reload.
ReloadOne_NoReload(st, r, interval_correction) ==
    IF interval_correction
    THEN RunnerAllowIntervalCorrection(st, r)
    ELSE st

ReloadOne(st, r, interval_correction) ==
    LET reloaded == RunnerReload(st, r)
    IN  IF interval_correction
        THEN RunnerAllowIntervalCorrection(reloaded, r)
        ELSE reloaded

RECURSIVE ReloadLoop(_, _, _)
ReloadLoop(st, rs, interval_correction) ==
    IF rs = <<>>
    THEN st
    ELSE ReloadLoop(ReloadOne(st, Head(rs), interval_correction),
                    Tail(rs), interval_correction)

ReloadRunners(st, s, interval_correction) ==
    ReloadLoop(st, DictValues(st.runners[s]), interval_correction)

HookReloads(event) == event = "tempo_update"

Hook(st, s, event) ==
    IF HookReloads(event)
    THEN ReloadRunners(st, s, TRUE)
    ELSE st

\* ------------------------------------------------------ float arithmetic
\* Width of the mantissa, and binary digits below a tenth of a second.
MantBits == 8
FracBits == 6

RECURSIVE Pow2(_)
Pow2(k) == IF k = 0 THEN 1 ELSE 2 * Pow2(k - 1)

\* Quanta in a tenth of a second and in a second.
OneTenth == Pow2(FracBits)
OneSec == 10 * OneTenth

Abs(x) == IF x < 0 THEN -x ELSE x

RECURSIVE BitLen(_)
BitLen(x) == IF x = 0 THEN 0 ELSE 1 + BitLen(x \div 2)

\* Distance between neighbouring floats at the magnitude of x.
Ulp(x) ==
    LET b == BitLen(Abs(x))
    IN  IF b <= MantBits THEN 1 ELSE Pow2(b - MantBits)

\* The float nearest to n / d (n >= 0, d > 0), ties to the even mantissa.
RoundRatPos(n, d) ==
    LET u == Ulp(n \div d)
        lo == ((n \div d) \div u) * u
        twice == 2 * (n - lo * d)
        half == u * d
    IN  IF twice < half THEN lo
        ELSE IF twice > half THEN lo + u
        ELSE IF (lo \div u) % 2 = 0 THEN lo ELSE lo + u

RoundRat(n, d) == IF n < 0 THEN -RoundRatPos(-n, d) ELSE RoundRatPos(n, d)

Rnd(x) == RoundRat(x, 1)

FAdd(a, b) == Rnd(a + b)

FSub(a, b) == Rnd(a - b)

\* float * number of beats (an integer here)
FMul(a, k) == Rnd(a * k)

\* C fmod: exact, with the sign of the dividend (w > 0).
FmodC(v, w) == IF v >= 0 THEN v % w ELSE -((-v) % w)

\* Python's float %: fmod, then the divisor added when the signs differ.
FMod(v, w) ==
    LET m == FmodC(v, w)
    IN  IF m < 0 THEN FAdd(m, w) ELSE m

\* ------------------------------------------------------------- BaseClock
\* Optional[float]: <<>> is None, <<v>> is the float v.
NoneF == <<>>
Some(v) == <<v>>
Val(o) == o[1]

\* A clock as constructed and added to its fish bowl, Time at its defaults.
ClockNew(tempo) ==
    [tempo |-> tempo,
     internal_time |-> NoneF,
     internal_origin |-> NoneF,
     time_is_origin |-> TRUE,
     run_task |-> "none",
     env |-> "bowl",
     origin |-> 0,
     shift |-> 0,
     beats_per_bar |-> 4]

\* Variant: the frozen flag is not consulted.
Time_IgnoreFrozen(c) ==
    IF c.internal_time = NoneF \/ c.internal_origin = NoneF
    THEN c.origin
    ELSE FAdd(FSub(Val(c.internal_time), Val(c.internal_origin)), c.origin)

Time(c) ==
    IF c.time_is_origin
    THEN c.origin
    ELSE IF c.internal_time = NoneF \/ c.internal_origin = NoneF
    THEN c.origin
    ELSE FAdd(FSub(Val(c.internal_time), Val(c.internal_origin)), c.origin)

\* Variant: the shift is left out.
ShiftedTime_NoShift(c) == Time(c)

ShiftedTime(c) == FAdd(Time(c), c.shift)

\* beat_duration: 60 / tempo, in quanta.
BeatDuration(c) == RoundRat(60 * OneSec, c.tempo)

\* beat: floor(shifted_time / beat_duration).
Beat(c) == ShiftedTime(c) \div BeatDuration(c)

\* shifted_time mod beat_duration, as the float modulus gives it.
PhaseRaw(c) == FMod(ShiftedTime(c), BeatDuration(c))

\* clock.phase (from the spec): the modulus, clamped into [0, beat_duration).
Phase(c) ==
    IF PhaseRaw(c) < 0 \/ PhaseRaw(c) >= BeatDuration(c)
    THEN 0
    ELSE PhaseRaw(c)

\* Variant: the remainder takes the sign of the beat.
BeatInBar_Truncated(c) ==
    IF Beat(c) < 0
    THEN -((-Beat(c)) % c.beats_per_bar)
    ELSE Beat(c) % c.beats_per_bar

\* __str__: beat % beats_per_bar, the beat within the bar counted from 0.
BeatInBar(c) == Beat(c) % c.beats_per_bar

GetBeatTimeZero(interval) == interval <= 0

\* Variant: the remainder itself is returned, not the time left to the grid.
GetBeatTimeSync_Elapsed(c, interval) == FMod(ShiftedTime(c), interval)

\* Variant: the remainder is taken on the beat, not on the interval.
GetBeatTimeSync_BeatGrid(c, interval) ==
    FSub(interval, FMod(ShiftedTime(c), BeatDuration(c)))

GetBeatTimeSync(c, interval) == FSub(interval, FMod(ShiftedTime(c), interval))

GetBeatTime(c, n_beats, sync) ==
    LET interval == FMul(BeatDuration(c), n_beats)
    IN  IF GetBeatTimeZero(interval) THEN 0
        ELSE IF ~sync THEN interval
        ELSE GetBeatTimeSync(c, interval)

\* The task is there and not done: spawned, running, or cancelled but not yet
\* ended.
IsRunningClock(c) == c.run_task \notin {"none", "done"}

\* Variant: dispatches on every set.
DispatchTempoUpdate_Always(c, old, new) ==
    IF c.env # "none" THEN << <<"tempo_update", old, new>> >> ELSE <<>>

\* _dispatch_tempo_update: the events dispatched on the bowl.
DispatchTempoUpdate(c, old, new) ==
    IF c.env # "none" /\ old # new
    THEN << <<"tempo_update", old, new>> >>
    ELSE <<>>

\* Variant: any number is taken for a tempo.
TempoValid_Any(new) == TRUE

\* The tempo setter's check (from the spec): a tempo is above 0.
TempoValid(new) == new > 0

\* clock.tempo = new (the concrete clock, from the spec): an invalid value is
\* an error raised to the caller before anything is assigned; otherwise the
\* old tempo is captured, the new one assigned, and the change dispatched.
SetTempo(c, new) ==
    IF TempoValid(new)
    THEN [clock |-> [c EXCEPT !.tempo = new],
          dispatched |-> DispatchTempoUpdate(c, c.tempo, new),
          err |-> "none"]
    ELSE [clock |-> c, dispatched |-> <<>>, err |-> "value_error"]

\* clock.beats_per_bar = new (from the spec): a bar has at least one beat.
SetBeatsPerBar(c, new) ==
    IF new >= 1
    THEN [clock |-> [c EXCEPT !.beats_per_bar = new], err |-> "none"]
    ELSE [clock |-> c, err |-> "value_error"]

\* The events the clock registers for in setup.
LifecycleEvents == {"start", "pause", "resume", "stop"}

\* Variant: a task is spawned only when there never was one.
HookSpawns_OnlyFirst(c) == c.run_task = "none"

\* Variant: a task that was cancelled and has not ended yet does not count
\* as running.
HookSpawns_UnlessLive(c) == c.run_task \notin {"spawned", "running"}

\* hook, start or resume: is a run() task created?
HookSpawns(c) == ~IsRunningClock(c)

\* Variant: the internal origin is left where it was.
HookStart_KeepOrigin(c) ==
    [c EXCEPT !.run_task = IF HookSpawns(c) THEN "spawned" ELSE @,
              !.time_is_origin = FALSE]

\* hook, start or resume.
HookStart(c) ==
    [c EXCEPT !.run_task = IF HookSpawns(c) THEN "spawned" ELSE @,
              !.internal_origin = c.internal_time,
              !.time_is_origin = FALSE]

\* Variant: the origin is not latched.
HookPause_NoLatch(c) == [c EXCEPT !.time_is_origin = TRUE]

\* Variant: the origin is latched from the internal values, frozen or not.
HookPause_Relatch(c) ==
    [c EXCEPT !.origin = Time_IgnoreFrozen(c), !.time_is_origin = TRUE]

\* hook, pause.
HookPause(c) == [c EXCEPT !.origin = Time(c), !.time_is_origin = TRUE]

\* Variant: the task is left running.
Teardown_Never(c) == c

\* teardown: cancel the run() task if there is one that is not done.
Teardown(c) ==
    IF IsRunningClock(c) THEN [c EXCEPT !.run_task = "cancelling"] ELSE c

ClockHook(c, ev) ==
    IF ev \in {"start", "resume"} THEN HookStart(c)
    ELSE IF ev = "pause" THEN HookPause(c)
    ELSE IF ev = "stop"
         THEN Teardown([c EXCEPT !.origin = Time(c), !.time_is_origin = TRUE])
    ELSE c

\* The concrete clock's time source (from the spec): a monotonic reading of
\* real time, counted from some epoch of its own.
InternalTimeAt(t) == t + 3 * OneTenth

\* One step of run() at real time t (from the spec): the first step sets
\* both internal values, every later one updates internal_time.
RunStep(c, t) ==
    IF c.run_task = "spawned"
    THEN [c EXCEPT !.run_task = "running",
                   !.internal_time = Some(InternalTimeAt(t)),
                   !.internal_origin = Some(InternalTimeAt(t))]
    ELSE [c EXCEPT !.internal_time = Some(InternalTimeAt(t))]

\* run() has caught up with real time t, or is not there to do so.
CaughtUp(c, t) ==
    /\ c.run_task # "spawned"
    /\ c.run_task = "running" => c.internal_time = Some(InternalTimeAt(t))

\* --------------------------------------------------------- state machine
ZeroCalls == [r \in Runners |-> 0]

\* The current state as the record the operations work on.
Cur ==
    [runners |-> runners, scheduler |-> scheduler, task |-> task,
     started |-> started,
     err |-> "none", spawned |-> {},
     reloadCalls |-> ZeroCalls, correctCalls |-> ZeroCalls]

Snapshot ==
    [runners |-> runners, scheduler |-> scheduler, task |-> task]

\* The scheduler's side of an operation, and its record.
CommitScheduler(op, s, r, ev, st) ==
    /\ runners' = st.runners
    /\ scheduler' = st.scheduler
    /\ task' = st.task
    /\ started' = st.started
    /\ pre' = Snapshot
    /\ last' = [op |-> op, s |-> s, r |-> r, ev |-> ev,
                err |-> st.err, spawned |-> st.spawned,
                reloadCalls |-> st.reloadCalls,
                correctCalls |-> st.correctCalls,
                repeat |-> /\ last.op = op /\ last.s = s /\ last.r = r
                           /\ last.ev = ev /\ last.err = "none"]

Commit(op, s, r, ev, st) ==
    /\ CommitScheduler(op, s, r, ev, st)
    /\ UNCHANGED <<clock, now, cl, bowl, rn>>

\* Tempo of a clock at construction.
Tempos == {60, 120}

\* No clock operation yet.  alive counts the run() tasks that were created
\* and have not ended, referenced by the clock or not.
ClNone(c) ==
    [op |-> "init", ev |-> "", arg |-> 0, sync |-> FALSE, ret |-> NoneF,
     dispatched |-> <<>>, pre |-> c, prevTime |-> 0, frozenAt |-> NoneF,
     resumedAt |-> NoneF, script |-> 0, err |-> "none",
     alive |-> IF IsRunningClock(c) THEN 1 ELSE 0]

\* A fish bowl as constructed (from the spec): stopped.
BowlNew ==
    [state |-> "stopped", handlers |-> {}, tempo_subs |-> <<>>,
     last |-> [op |-> "init", pre |-> "stopped", dispatched |-> <<>>,
               clock |-> NoneF, delivered |-> <<>>, caught |-> <<>>]]

\* An AsyncRunner as constructed (from the spec): an empty state stack, no
\* deferred deadline, no shift, the one-shot flags down.  pc is the position
\* of its loop: at the top of an iteration, asleep until deadline, or in a
\* call of the top state's function.
RunnerNew ==
    [states |-> <<>>, pc |-> "top", deadline |-> 0, deferred |-> NoneF,
     interval_shift |-> 0, allow_correction |-> FALSE, reload |-> FALSE]

\* The runners' loops, the player as Player.__init__ leaves it, and the
\* record of the last step.
RnNew ==
    [run |-> [r \in Runners |-> RunnerNew],
     pl |-> [iterator |-> 0, iterator_span |-> 1, iterator_limit |-> NoneF],
     h |-> [op |-> "init", r |-> None, calls |-> 0,
           pattern |-> "", res |-> "", err |-> "none",
           spawned |-> {}, wasRunning |-> FALSE, wasRegistered |-> FALSE,
           ran |-> FALSE, failed |-> FALSE, swims |-> 0, updates |-> 0,
           iterator |-> 0, preStates |-> <<>>, preTask |-> "idle",
           preRun |-> [r \in Runners |-> RunnerNew],
           pushed |-> "", over |-> "", chg |-> NoneF, changes |-> 0,
           fixes |-> 0,
           inv |-> [r \in Runners |-> NoneF],
           prevInv |-> [r \in Runners |-> NoneF],
           sched |-> [r \in Runners |-> NoneF],
           since |-> [r \in Runners |-> {}]]]

RunnersInit ==
    /\ runners = [s \in Schedulers |-> <<>>]
    /\ scheduler = [r \in Runners |-> None]
    /\ task = [r \in Runners |-> "idle"]
    /\ started = [s \in Schedulers |-> {}]
    /\ pre = Snapshot
    /\ last = [op |-> "init", s |-> None, r |-> None, ev |-> "",
               err |-> "none", spawned |-> {},
               reloadCalls |-> ZeroCalls, correctCalls |-> ZeroCalls,
               repeat |-> FALSE]
    /\ rn = RnNew

SchedulerInit ==
    /\ RunnersInit
    /\ bowl = BowlNew

Init ==
    /\ SchedulerInit
    /\ clock = ClockNew(120)
    /\ now = 0
    /\ cl = ClNone(clock)

StartRunnerCall ==
    \E s \in Schedulers, r \in Runners :
        Commit("start_runner", s, r, "", StartRunner(Cur, s, r))

StopRunnerCall ==
    \E s \in Schedulers, r \in Runners :
        Commit("stop_runner", s, r, "", StopRunner(Cur, s, r))

ResetCall ==
    \E s \in Schedulers :
        Commit("reset", s, None, "", Reset(Cur, s))

HookCall ==
    \E s \in Schedulers, ev \in Events :
        Commit("hook", s, None, ev, Hook(Cur, s, ev))

\* runner.stop() called directly on the runner, not through a scheduler.
RunnerStopCall ==
    \E r \in Runners :
        /\ IsRunning(task, r)
        /\ Commit("runner_stop", None, r, "", RunnerStop(Cur, r))

\* The event loop runs the runner's task: a cancelled task ends, and a running
\* one may end by itself (core loop step 1: empty state stack).
RunnerTaskExit ==
    \E r \in Runners :
        /\ IsRunning(task, r)
        /\ Commit("task_exit", None, r, "", [Cur EXCEPT !.task[r] = "idle"])

Next ==
    \/ StartRunnerCall
    \/ StopRunnerCall
    \/ ResetCall
    \/ HookCall
    \/ RunnerStopCall
    \/ RunnerTaskExit

Spec == Init /\ [][Next]_vars

\* ------------------------------------------------------ claims: helpers
\* The operation last called, and the state it was called in.
LastIs(op) == last.op = op

PreGet(s, name) == DictGet(pre.runners[s], name)

NowGet(s, name) == DictGet(runners[s], name)

NothingMutated ==
    /\ runners = pre.runners
    /\ scheduler = pre.scheduler
    /\ task = pre.task

\* ---------------------------------------------------------------- C1
\* C1: in every scheduler the dict keys are unique, every entry sits under its
\* runner's own name and is a runner that was inserted and not removed since,
\* and no two inserted runners of one scheduler share a name.
C1_OneRunnerPerName ==
    \A s \in Schedulers :
        /\ \A i, j \in 1..Len(runners[s]) :
              runners[s][i].key = runners[s][j].key => i = j
        /\ \A i \in 1..Len(runners[s]) :
              NameOf(runners[s][i].val) = runners[s][i].key
        /\ \A n \in Names :
              NowGet(s, n) = None \/ NowGet(s, n) \in started[s]
        /\ \A r1, r2 \in started[s] : NameOf(r1) = NameOf(r2) => r1 = r2

\* A second instance of a registered name was offered to a scheduler whose
\* dict holds a runner under every name.
C1_Witness ==
    /\ LastIs("start_runner")
    /\ Len(runners[last.s]) = NumNames
    /\ NowGet(last.s, NameOf(last.r)) \notin {None, last.r}

\* ---------------------------------------------------------------- C2
\* C2: a runner is the dict entry under its name in scheduler s exactly when
\* s.start_runner succeeded for it and no successful s.stop_runner of it (by
\* the caller or inside s.reset) came after.
C2_InMapIffStarted ==
    \A s \in Schedulers, r \in Runners :
        (NowGet(s, NameOf(r)) = r) <=> (r \in started[s])

\* A runner that was started on s (its back-reference says so) and has been
\* removed again, next to another one that is still registered.
C2_Witness ==
    \E s \in Schedulers, r \in Runners :
        /\ scheduler[r] = s
        /\ r \notin started[s]
        /\ NowGet(s, NameOf(r)) = None
        /\ started[s] # {}

\* ---------------------------------------------------------------- C3
\* C3: start_runner(r) on a scheduler whose dict holds another instance under
\* r.name raises and mutates nothing: the old entry stays, r.scheduler and
\* r's task are as before and no task is spawned.
C3_NameConflictRejected ==
    LET old == PreGet(last.s, NameOf(last.r))
    IN  (LastIs("start_runner") /\ old # None /\ old # last.r)
        => /\ last.err # "none"
           /\ NothingMutated
           /\ NowGet(last.s, NameOf(last.r)) = old
           /\ last.spawned = {}

\* The name check itself raised (the runner was not running elsewhere).
C3_Witness ==
    /\ LastIs("start_runner")
    /\ last.err = "name_conflict"
    /\ PreGet(last.s, NameOf(last.r)) \notin {None, last.r}

\* ---------------------------------------------------------------- C4
\* C4: start_runner(r) on s while r is running on another scheduler raises
\* and mutates nothing: no dict changes, r.scheduler is still the other
\* scheduler and r's task is as before.
C4_StartElsewhereRejected ==
    (/\ LastIs("start_runner")
     /\ IsRunning(pre.task, last.r)
     /\ pre.scheduler[last.r] \notin {None, last.s})
    => /\ last.err # "none"
       /\ NothingMutated
       /\ last.spawned = {}

C4_Witness ==
    /\ LastIs("start_runner")
    /\ last.err = "other_scheduler"
    /\ task[last.r] = "running"
    /\ scheduler[last.r] \notin {None, last.s}

\* ---------------------------------------------------------------- C5
\* C5: a second s.start_runner(r) right after a successful one raises nothing,
\* spawns no task and leaves dicts, back-references and tasks as they were.
C5_StartIdempotent ==
    (LastIs("start_runner") /\ last.repeat)
    => /\ last.err = "none"
       /\ NothingMutated
       /\ last.spawned = {}

C5_Witness ==
    /\ LastIs("start_runner")
    /\ last.repeat
    /\ task[last.r] = "running"
    /\ NowGet(last.s, NameOf(last.r)) = last.r

\* ---------------------------------------------------------------- C6
\* C6: a stop_runner(r) that passes the cross-scheduler check leaves r stopped
\* (no task, or a cancelled one) and deletes the entry under r.name exactly
\* when that entry is r; another instance under the name stays registered
\* and its task is not touched.
C6_StopRemovesOnlyItself ==
    LET s == last.s
        r == last.r
        old == PreGet(s, NameOf(r))
    IN  (LastIs("stop_runner") /\ last.err = "none")
        => /\ task[r] # "running"
           /\ runners[s] = IF old = r
                           THEN DictDel(pre.runners[s], NameOf(r))
                           ELSE pre.runners[s]
           /\ \A t \in Schedulers \ {s} : runners[t] = pre.runners[t]
           /\ \A q \in Runners \ {r} : task[q] = pre.task[q]

\* r was stopped while a newer instance of its name is registered and running.
C6_Witness ==
    LET other == NowGet(last.s, NameOf(last.r))
    IN  /\ LastIs("stop_runner")
        /\ last.err = "none"
        /\ other \notin {None, last.r}
        /\ task[other] = "running"
        /\ scheduler[last.r] = last.s

\* ---------------------------------------------------------------- C7
\* C7: a second s.stop_runner(r) right after a successful one raises nothing
\* and leaves every dict and every runner's task as they were.
C7_StopIdempotent ==
    (LastIs("stop_runner") /\ last.repeat)
    => /\ last.err = "none"
       /\ NothingMutated

\* The first call cancelled a running task; the second found it cancelled.
C7_Witness ==
    /\ LastIs("stop_runner")
    /\ last.repeat
    /\ task[last.r] = "cancelling"
    /\ scheduler[last.r] = last.s

\* ---------------------------------------------------------------- C8
\* C8: stop_runner(r) on s while r is running on another scheduler raises,
\* does not stop r and changes no dict.
C8_StopElsewhereRejected ==
    (/\ LastIs("stop_runner")
     /\ IsRunning(pre.task, last.r)
     /\ pre.scheduler[last.r] \notin {None, last.s})
    => /\ last.err # "none"
       /\ NothingMutated

C8_Witness ==
    /\ LastIs("stop_runner")
    /\ last.err = "other_scheduler"
    /\ task[last.r] = "running"

\* ---------------------------------------------------------------- C9
\* C9: after reset() the scheduler's dict is empty and every runner that was
\* in it is stopped.
C9_ResetClearsAll ==
    LastIs("reset")
    => /\ runners[last.s] = <<>>
       /\ \A r \in DictValueSet(pre.runners[last.s]) : task[r] # "running"

\* ---------------------------------------------------------------- C10
\* C10: a tempo_update handed to a scheduler's hook calls reload() and
\* allow_interval_correction() once each on every runner in its dict and on
\* no other; any other event makes no call; no event changes a dict, a
\* back-reference or a task.
C10_TempoUpdateReloadsAll ==
    LET inMap == DictValueSet(pre.runners[last.s])
        want == IF last.ev = "tempo_update"
                THEN [r \in Runners |-> IF r \in inMap THEN 1 ELSE 0]
                ELSE ZeroCalls
    IN  LastIs("hook")
        => /\ last.reloadCalls = want
           /\ last.correctCalls = want
           /\ last.err = "none"
           /\ last.spawned = {}
           /\ NothingMutated

\* A tempo_update reached a scheduler holding a runner under every name,
\* while some runner is not registered there.
C10_Witness ==
    /\ LastIs("hook")
    /\ last.ev = "tempo_update"
    /\ Len(runners[last.s]) = NumNames
    /\ \E r \in Runners : last.reloadCalls[r] = 0
    /\ \E r \in Runners : last.reloadCalls[r] = 1

\* =========================================================== Part 2: clock
\* ------------------------------------------------ get_beat_time, as called
\* Number of beats asked for.
MaxBeats == 3
NBeats == -1..MaxBeats

\* Time.origin of a frozen clock and Time.shift: points of the tenth-of-a-second
\* grid, and values a few quanta off it.
MaxOriginTenths == 24

\* A frozen clock at some time, with some shift and tempo.
BeatInit ==
    /\ SchedulerInit
    /\ now = 0
    /\ \E t \in Tempos,
          o \in {0, 3 * OneTenth, OneSec, OneSec + 4,
                 MaxOriginTenths * OneTenth},
          sh \in {0, -1, -3, 1, -(3 * OneTenth), -OneSec,
                  -(2 * OneSec) - 8} :
          clock = [ClockNew(t) EXCEPT !.origin = o, !.shift = sh]
    /\ cl = ClNone(clock)

GetBeatTimeCall ==
    \E n \in NBeats, sync \in BOOLEAN :
        /\ cl' = [ClNone(clock) EXCEPT
                     !.op = "get_beat_time", !.arg = n, !.sync = sync,
                     !.ret = Some(GetBeatTime(clock, n, sync))]
        /\ UNCHANGED <<clock, now, runners, scheduler, task, started, last, pre, bowl, rn>>

\* The setters are called with values valid and not.

\* clock.tempo = x; a call that raised is recorded as such.
SetTempoCall ==
    \E x \in Tempos \cup {0, -60} :
        /\ clock' = SetTempo(clock, x).clock
        /\ cl' = [ClNone(clock) EXCEPT
                     !.op = IF SetTempo(clock, x).err = "none"
                            THEN "set_tempo" ELSE "set_tempo_raised",
                     !.arg = x,
                     !.dispatched = SetTempo(clock, x).dispatched,
                     !.err = SetTempo(clock, x).err]
        /\ UNCHANGED <<now, runners, scheduler, task, started, last, pre, bowl, rn>>

\* clock.beats_per_bar = x.
SetBeatsPerBarCall ==
    \E x \in {-1, 0, 1, 3} :
        /\ clock' = SetBeatsPerBar(clock, x).clock
        /\ cl' = [ClNone(clock) EXCEPT
                     !.op = IF SetBeatsPerBar(clock, x).err = "none"
                            THEN "set_beats_per_bar"
                            ELSE "set_beats_per_bar_raised",
                     !.arg = x,
                     !.err = SetBeatsPerBar(clock, x).err]
        /\ UNCHANGED <<now, runners, scheduler, task, started, last, pre, bowl, rn>>

BeatNext == GetBeatTimeCall \/ SetTempoCall \/ SetBeatsPerBarCall

SpecBeat == BeatInit /\ [][BeatNext]_vars

\* ------------------------------------------------ the clock's life cycle
\* Real time runs to MaxNow seconds, in steps of one second.
MaxNow == 12

\* The scenario of start at 0 s, pause at 1 s, resume at 11 s: how far the
\* events so far have followed it (-1: they have left it).
ScriptStep(k, ev, t) ==
    IF k = 0 /\ ev = "start" /\ t = 0 THEN 1
    ELSE IF k = 1 /\ ev = "pause" /\ t = OneSec THEN 2
    ELSE IF k = 2 /\ ev = "resume" /\ t = 11 * OneSec THEN 3
    ELSE -1

ClockInit ==
    /\ SchedulerInit
    /\ now = 0
    /\ \E sh \in {0, -(3 * OneTenth)} : clock = [ClockNew(120) EXCEPT !.shift = sh]
    /\ cl = ClNone(clock)

\* The clock's hook handles a life-cycle event.
ClockHandles(ev) ==
        /\ clock' = ClockHook(clock, ev)
        /\ cl' = [cl EXCEPT
                     !.op = "hook", !.ev = ev, !.pre = clock,
                     !.prevTime = Time(clock),
                     !.frozenAt = IF ev \in {"pause", "stop"}
                                  THEN Some([time |-> Time(clock), by |-> ev,
                                             it |-> clock.internal_time])
                                  ELSE NoneF,
                     !.resumedAt = IF ev \in {"start", "resume"}
                                   THEN Some([frozen |-> cl.frozenAt,
                                              it |-> clock.internal_time,
                                              live |-> clock.run_task = "running"])
                                   ELSE NoneF,
                     !.script = ScriptStep(cl.script, ev, now),
                     !.alive = IF /\ ClockHook(clock, ev).run_task = "spawned"
                                  /\ clock.run_task # "spawned"
                               THEN @ + 1 ELSE @]

\* An event is handed to the clock's hook directly.
ClockHookCall ==
    \E ev \in LifecycleEvents :
        /\ ClockHandles(ev)
        /\ UNCHANGED <<now, runners, scheduler, task, started, last, pre, bowl, rn>>

\* The event loop runs the new run() task for its first step.
ClockRunStart ==
    /\ clock.run_task = "spawned"
    /\ clock' = RunStep(clock, now)
    /\ cl' = [cl EXCEPT !.op = "run", !.pre = clock, !.prevTime = Time(clock)]
    /\ UNCHANGED <<now, runners, scheduler, task, started, last, pre, bowl, rn>>

\* The event loop runs the cancelled run() task, which ends.
ClockRunCancelled ==
    /\ clock.run_task = "cancelling"
    /\ clock' = [clock EXCEPT !.run_task = "done"]
    /\ cl' = [cl EXCEPT !.op = "cancelled", !.pre = clock,
                        !.prevTime = Time(clock), !.alive = @ - 1]
    /\ UNCHANGED <<now, runners, scheduler, task, started, last, pre, bowl, rn>>

\* A second of real time passes; a live run() task keeps internal_time up
\* with it (it lags by a pulse at most), and a new one has begun by then.
Tick ==
    /\ now < MaxNow * OneSec
    /\ clock.run_task # "spawned"
    /\ now' = now + OneSec
    /\ clock' = IF clock.run_task = "running"
                THEN RunStep(clock, now + OneSec)
                ELSE clock
    /\ cl' = [cl EXCEPT !.op = "tick", !.pre = clock, !.prevTime = Time(clock)]
    /\ UNCHANGED <<runners, scheduler, task, started, last, pre, bowl, rn>>

ClockNext == ClockHookCall \/ ClockRunStart \/ ClockRunCancelled \/ Tick

SpecClock == ClockInit /\ [][ClockNext]_vars

\* ------------------------------------------- FishBowl life cycle (from the spec)
\* The transitions of the bowl's state machine; any other call is a no-op.
BowlValid(state, op) ==
    \/ op = "start" /\ state = "stopped"
    \/ op = "pause" /\ state = "running"
    \/ op = "resume" /\ state = "paused"
    \/ op = "stop" /\ state \in {"running", "paused"}

BowlTarget(op) ==
    IF op \in {"start", "resume"} THEN "running"
    ELSE IF op = "pause" THEN "paused"
    ELSE "stopped"

\* Variant: the clock does not register for resume.
ClockRegistered_NoResume(ev) == ev \in LifecycleEvents \ {"resume"}

\* setup: the events the bowl hands to the clock.
ClockRegistered(ev) == ev \in LifecycleEvents

\* bowl.start(), pause(), resume() or stop().
BowlCall ==
    \E op \in {"start", "pause", "resume", "stop"} :
        /\ bowl' = [bowl EXCEPT
                       !.state = IF BowlValid(bowl.state, op)
                                 THEN BowlTarget(op) ELSE bowl.state,
                       !.last = [op |-> op, pre |-> bowl.state,
                                 dispatched |-> IF BowlValid(bowl.state, op)
                                                THEN <<op>> ELSE <<>>,
                                 clock |-> Some(clock),
                                 delivered |-> <<>>, caught |-> <<>>]]
        /\ IF BowlValid(bowl.state, op) /\ ClockRegistered(op)
           THEN ClockHandles(op)
           ELSE clock' = clock /\ cl' = [cl EXCEPT !.op = "noop"]
        /\ UNCHANGED <<now, runners, scheduler, task, started, last, pre, rn>>

BowlNext == BowlCall \/ ClockRunStart \/ ClockRunCancelled \/ Tick

SpecBowl == ClockInit /\ [][BowlNext]_vars

\* ---------------------------------------------- FishBowl dispatch (from the spec)
\* Handlers that subscribe to tempo_update: two of the user's, the first of
\* which raises in its hook, and the bowl's scheduler.
Handlers == {"H1", "H2", "scheduler"}
HandlerRaises(h) == h = "H1"
BowlScheduler == 1

\* Variant: the scheduler registers for stop.
SchedulerRegistered_Stop(ev) == ev = "stop"

\* Scheduler.setup: the events the scheduler registers for.
SchedulerRegistered(ev) == ev = "tempo_update"

\* What setup registers the handler for.
Registers(h, ev) ==
    IF h = "scheduler" THEN SchedulerRegistered(ev) ELSE ev = "tempo_update"

\* dispatch: every subscribed handler's hook is called, in registration
\* order; a hook that raises is caught and the next one is called.
RECURSIVE DispatchLoop(_, _, _)
DispatchLoop(d, hs, ev) ==
    IF hs = <<>>
    THEN d
    ELSE LET h == Head(hs)
             called == [d EXCEPT !.delivered = Append(@, h)]
             after == IF h = "scheduler"
                      THEN [called EXCEPT !.st = Hook(@, BowlScheduler, ev)]
                      ELSE IF HandlerRaises(h)
                      THEN [called EXCEPT !.caught = Append(@, h)]
                      ELSE called
         IN  DispatchLoop(after, Tail(hs), ev)

Dispatch(st, hs, ev) ==
    DispatchLoop([st |-> st, delivered |-> <<>>, caught |-> <<>>], hs, ev)

\* add_handler: setup registers the handler.
AddHandlerCall ==
    \E h \in Handlers :
        /\ h \notin bowl.handlers
        /\ bowl' = [bowl EXCEPT
                       !.handlers = @ \cup {h},
                       !.tempo_subs = IF Registers(h, "tempo_update")
                                      THEN Append(@, h) ELSE @,
                       !.last = [BowlNew.last EXCEPT !.op = "add_handler"]]
        /\ UNCHANGED <<clock, now, cl, rn,
                       runners, scheduler, task, started, last, pre>>

BowlStartRunner ==
    \E r \in Runners :
        Commit("start_runner", BowlScheduler, r, "",
               StartRunner(Cur, BowlScheduler, r))

BowlStopRunner ==
    \E r \in Runners :
        Commit("stop_runner", BowlScheduler, r, "",
               StopRunner(Cur, BowlScheduler, r))

\* clock.tempo = x, and the dispatch it makes over the subscribers.
TempoSet(x) ==
    LET set == SetTempo(clock, x)
    IN  [set |-> set,
         res |-> IF set.dispatched = <<>>
                 THEN Dispatch(Cur, <<>>, "tempo_update")
                 ELSE Dispatch(Cur, bowl.tempo_subs, "tempo_update")]

BowlSetsTempo(x) ==
    LET set == TempoSet(x).set
        res == TempoSet(x).res
    IN  /\ clock' = set.clock
        /\ cl' = [ClNone(clock) EXCEPT
                     !.op = "set_tempo", !.arg = x,
                     !.dispatched = set.dispatched]
        /\ bowl' = [bowl EXCEPT
                       !.last = [op |-> "set_tempo", pre |-> bowl.state,
                                 dispatched |-> set.dispatched,
                                 clock |-> Some(clock),
                                 delivered |-> res.delivered,
                                 caught |-> res.caught]]
        /\ CommitScheduler("set_tempo", BowlScheduler, None,
                           "tempo_update", res.st)

BowlSetTempo ==
    \E x \in Tempos : BowlSetsTempo(x) /\ UNCHANGED <<now, rn>>

DispatchNext ==
    AddHandlerCall \/ BowlStartRunner \/ BowlStopRunner \/ BowlSetTempo

SpecDispatch == Init /\ [][DispatchNext]_vars

\* ---------------------------------------------------------------- C11
\* C11: setting the tempo dispatches tempo_update(old, new) on the bowl iff
\* old differs from new: nothing for a set to the same value, exactly one
\* event carrying the old and the new tempo otherwise.
C11_TempoUpdateIffChanged ==
    cl.op = "set_tempo"
    => /\ clock.tempo = cl.arg
       /\ cl.pre.tempo = cl.arg => cl.dispatched = <<>>
       /\ cl.pre.tempo # cl.arg
             => /\ Len(cl.dispatched) = 1
                /\ cl.dispatched[1] = <<"tempo_update", cl.pre.tempo, cl.arg>>

C11_Witness ==
    /\ cl.op = "set_tempo"
    /\ cl.pre.tempo = 120
    /\ cl.arg = 60
    /\ cl.dispatched = << <<"tempo_update", 120, 60>> >>

C13_FrozenWhilePaused ==
    cl.frozenAt # NoneF
    => /\ Time(clock) = Val(cl.frozenAt).time
       /\ clock.origin = Val(cl.frozenAt).time
       /\ clock.time_is_origin

\* Paused at 1 s; internal_time has since gone on for three seconds or more.
C13_Witness ==
    /\ cl.frozenAt # NoneF
    /\ Val(cl.frozenAt).by = "pause"
    /\ Val(cl.frozenAt).time = OneSec
    /\ clock.internal_time # NoneF
    /\ Val(cl.frozenAt).it # NoneF
    /\ Val(clock.internal_time) - Val(Val(cl.frozenAt).it) >= 3 * OneSec
    /\ Time(clock) = OneSec

\* ---------------------------------------------------------------- C14
\* C14: pause followed by resume leaves time unchanged across the pair: the
\* first read after resume is the value frozen at pause, whatever internal
\* time went by while paused, and time then goes on from that value by the
\* internal time gone by since the resume.
C14_PauseResumeKeepsTime ==
    (/\ cl.resumedAt # NoneF
     /\ cl.ev = "resume"
     /\ Val(cl.resumedAt).frozen # NoneF
     /\ Val(Val(cl.resumedAt).frozen).by = "pause")
    => LET r == Val(cl.resumedAt)
           frozen == Val(r.frozen).time
       IN  /\ cl.op = "hook" => Time(clock) = frozen
           /\ Time(clock) >= frozen
           /\ (r.live /\ r.it # NoneF)
                 => Time(clock)
                      = Rnd(Rnd(Val(clock.internal_time) - Val(r.it)) + frozen)

\* Paused at 1 s for two seconds or more, resumed, and one second on.
C14_Witness ==
    /\ cl.resumedAt # NoneF
    /\ cl.ev = "resume"
    /\ Val(cl.resumedAt).frozen # NoneF
    /\ Val(Val(cl.resumedAt).frozen).by = "pause"
    /\ Val(Val(cl.resumedAt).frozen).time = OneSec
    /\ Val(cl.resumedAt).live
    /\ Val(Val(cl.resumedAt).frozen).it # NoneF
    /\ Val(Val(cl.resumedAt).it) - Val(Val(Val(cl.resumedAt).frozen).it)
          >= 2 * OneSec
    /\ Val(clock.internal_time) - Val(Val(cl.resumedAt).it) = OneSec
    /\ Time(clock) = 2 * OneSec

\* ---------------------------------------------------------------- C15
\* C15: tempo 120, no shift: start, run 1.0 s (beat 2), pause for 10 s of real
\* time, resume, run 1.0 s more: at real time 12.0 s time is 2.0 s and beat
\* is 4.
C15_PauseKeepsPosition ==
    (clock.tempo = 120 /\ clock.shift = 0 /\ CaughtUp(clock, now))
    => /\ (cl.script = 1 /\ now = OneSec)
             => (Time(clock) = OneSec /\ Beat(clock) = 2)
       /\ (cl.script = 3 /\ now = 12 * OneSec)
             => (Time(clock) = 2 * OneSec /\ Beat(clock) = 4)

C15_Witness ==
    /\ clock.tempo = 120
    /\ clock.shift = 0
    /\ cl.script = 3
    /\ now = 12 * OneSec
    /\ CaughtUp(clock, now)
    /\ clock.run_task = "running"
    /\ Time(clock) = 2 * OneSec
    /\ Beat(clock) = 4

\* ---------------------------------------------------------------- C16
\* C16: on start or resume the clock spawns a run() task iff none is running
\* (none that is_running() reports), sets internal_origin to the current
\* internal_time and clears time_is_origin.
C16_StartSpawnsIffNotRunning ==
    (cl.op = "hook" /\ cl.ev \in {"start", "resume"})
    => /\ cl.pre.run_task \in {"none", "done"} => clock.run_task = "spawned"
       /\ cl.pre.run_task \notin {"none", "done"}
             => clock.run_task = cl.pre.run_task
       /\ clock.internal_origin = cl.pre.internal_time
       /\ ~clock.time_is_origin
       /\ clock.internal_time = cl.pre.internal_time
       /\ clock.origin = cl.pre.origin

\* A start after the task of an earlier start was cancelled and has ended.
C16_Witness ==
    /\ cl.op = "hook"
    /\ cl.ev = "start"
    /\ cl.pre.run_task = "done"
    /\ cl.pre.internal_time # NoneF
    /\ cl.pre.internal_origin # cl.pre.internal_time
    /\ clock.run_task = "spawned"
    /\ clock.internal_origin = cl.pre.internal_time

\* ---------------------------------------------------------------- C17
\* C17: on stop the clock latches Time.origin to the current time and sets
\* time_is_origin, as pause does, then cancels its run() task: from then
\* on, until the next start or resume, no run() task is live and
\* internal_time stays where it was.
C17_StopFreezesAndCancels ==
    /\ (cl.op = "hook" /\ cl.ev = "stop")
          => /\ clock.origin = Time(cl.pre)
             /\ clock.time_is_origin
             /\ cl.pre.run_task \in {"spawned", "running", "cancelling"}
                   => clock.run_task = "cancelling"
             /\ cl.pre.run_task \in {"none", "done"}
                   => clock.run_task = cl.pre.run_task
             /\ clock.internal_time = cl.pre.internal_time
             /\ clock.internal_origin = cl.pre.internal_origin
    /\ (cl.frozenAt # NoneF /\ Val(cl.frozenAt).by = "stop")
          => /\ clock.run_task \in {"none", "cancelling", "done"}
             /\ clock.internal_time = Val(cl.frozenAt).it

\* Stopped at 1 s with a running task, which has ended two seconds later.
C17_Witness ==
    /\ cl.frozenAt # NoneF
    /\ Val(cl.frozenAt).by = "stop"
    /\ Val(cl.frozenAt).time = OneSec
    /\ Val(cl.frozenAt).it = Some(InternalTimeAt(OneSec))
    /\ clock.run_task = "done"
    /\ now = 3 * OneSec

C21_BowlLifecycle ==
    bowl.last.op # "init"
    => LET op == bowl.last.op
           p == bowl.last.pre
           valid == <<p, op>> \in {<<"stopped", "start">>, <<"running", "pause">>,
                                   <<"paused", "resume">>, <<"running", "stop">>,
                                   <<"paused", "stop">>}
       IN  /\ bowl.state \in {"stopped", "running", "paused"}
           /\ valid
                 => /\ bowl.state = (CASE op = "start" -> "running"
                                       [] op = "pause" -> "paused"
                                       [] op = "resume" -> "running"
                                       [] op = "stop" -> "stopped")
                    /\ bowl.last.dispatched = <<op>>
                    /\ cl.op \in {"hook", "noop"}
                          => /\ clock.time_is_origin = (op \in {"pause", "stop"})
                             /\ op \in {"start", "resume"}
                                   => clock.internal_origin
                                        = Val(bowl.last.clock).internal_time
           /\ ~valid
                 => /\ bowl.state = p
                    /\ bowl.last.dispatched = <<>>
                    /\ cl.op \in {"hook", "noop"}
                          => clock = Val(bowl.last.clock)

\* start() on a bowl that has been running for two seconds: nothing happens.
C21_Witness ==
    /\ bowl.last.op = "start"
    /\ bowl.last.pre = "running"
    /\ bowl.state = "running"
    /\ bowl.last.dispatched = <<>>
    /\ cl.op = "noop"
    /\ Time(clock) = 2 * OneSec
    /\ clock = Val(bowl.last.clock)

\* ---------------------------------------------------------------- C22
\* How many times h occurs in the sequence q.
Occurrences(q, h) == Cardinality({i \in 1..Len(q) : q[i] = h})

\* h comes before k in the sequence q.
Before(q, h, k) ==
    \E i, j \in 1..Len(q) : i < j /\ q[i] = h /\ q[j] = k

\* C22: with H1 and H2 subscribed to tempo_update in that order and H1
\* raising in its hook, a tempo change still delivers the event to H2 exactly
\* once, and the scheduler's own subscription still reloads its runners.
C22_HandlerIsolation ==
    (/\ bowl.last.op = "set_tempo"
     /\ last.op = "set_tempo"
     /\ cl.pre.tempo # cl.arg
     /\ Before(bowl.tempo_subs, "H1", "H2"))
    => /\ Occurrences(bowl.last.caught, "H1") = 1
       /\ Occurrences(bowl.last.delivered, "H2") = 1
       /\ "scheduler" \in bowl.handlers
             => \A i \in 1..Len(pre.runners[1]) :
                   LET r == pre.runners[1][i].val
                   IN  last.reloadCalls[r] = 1 /\ last.correctCalls[r] = 1

\* H1 first, the scheduler after it, two runners registered.
C22_Witness ==
    /\ bowl.last.op = "set_tempo"
    /\ last.op = "set_tempo"
    /\ cl.pre.tempo # cl.arg
    /\ bowl.tempo_subs = <<"H1", "scheduler", "H2">>
    /\ bowl.last.caught = <<"H1">>
    /\ bowl.last.delivered = <<"H1", "scheduler", "H2">>
    /\ Len(pre.runners[1]) = 2
    /\ \A i \in 1..2 : last.reloadCalls[pre.runners[1][i].val] = 1

\* ---------------------------------------------------------------- C19
\* C19: get_beat_time(n, sync) returns 0 for n <= 0, the interval
\* beat_duration * n when sync is false, and the interval less
\* (shifted_time % interval) when sync is true: on the tenth-of-a-second grid
\* that is the exact difference, and at tempo 60 with shifted_time 0.3 s and
\* n = 1 it is 0.7 s with sync and 1.0 s without.
C19_GetBeatTime ==
    LET n == cl.arg
        bd == RoundRat(60 * OneSec, clock.tempo)
        interval == Rnd(bd * n)
        st == Rnd(clock.origin + clock.shift)
        ret == Val(cl.ret)
    IN  cl.op = "get_beat_time"
        => /\ n <= 0 => ret = 0
           /\ (n > 0 /\ ~cl.sync) => ret = interval
           /\ (n > 0 /\ cl.sync) => ret = Rnd(interval - FMod(st, interval))
           /\ (n > 0 /\ cl.sync /\ st % OneTenth = 0)
                 => ret = interval - (st % interval)
           /\ (clock.tempo = 60 /\ st = 3 * OneTenth /\ n = 1)
                 => ret = IF cl.sync THEN 7 * OneTenth ELSE OneSec

\* The example of the claim: tempo 60, shifted_time 0.3 s, one beat, in sync.
C19_Witness ==
    /\ cl.op = "get_beat_time"
    /\ clock.tempo = 60
    /\ ShiftedTime(clock) = 3 * OneTenth
    /\ cl.arg = 1
    /\ cl.sync
    /\ Val(cl.ret) = 7 * OneTenth

\* ---------------------------------------------------------------- C20
\* Distance from x to the nearest multiple of w (w > 0).
DistToGrid(x, w) == IF x % w <= w - (x % w) THEN x % w ELSE w - (x % w)

\* C20 as claimed: for n > 0, get_beat_time(n, sync=true) + shifted_time is
\* an exact multiple of beat_duration * n.
C20_ExactMultiple ==
    LET interval == Rnd(RoundRat(60 * OneSec, clock.tempo) * cl.arg)
        st == Rnd(clock.origin + clock.shift)
    IN  (cl.op = "get_beat_time" /\ cl.arg > 0 /\ cl.sync)
        => (Val(cl.ret) + st) % interval = 0

\* C20 amended: for n > 0, get_beat_time(n, sync=true) + shifted_time is a
\* multiple of beat_duration * n up to rounding, that is within one unit in
\* the last place of the interval.
C20_MultipleUpToRounding ==
    LET interval == Rnd(RoundRat(60 * OneSec, clock.tempo) * cl.arg)
        st == Rnd(clock.origin + clock.shift)
    IN  (cl.op = "get_beat_time" /\ cl.arg > 0 /\ cl.sync)
        => DistToGrid(Val(cl.ret) + st, interval) <= Ulp(interval)

\* A negative shifted_time off the grid: the wait returned ends next to a
\* grid point, not on it.
C20_Witness ==
    LET interval == Rnd(RoundRat(60 * OneSec, clock.tempo) * cl.arg)
        st == Rnd(clock.origin + clock.shift)
    IN  /\ cl.op = "get_beat_time"
        /\ cl.arg > 0
        /\ cl.sync
        /\ st < 0
        /\ (Val(cl.ret) + st) % interval # 0
        /\ DistToGrid(Val(cl.ret) + st, interval) <= Ulp(interval)

\* ======================================================================
\* Part 3: Player (sardine_core/handlers/player.py) driving an AsyncRunner
\* ======================================================================
\* The player's runner is the first runner; the others belong to swimming
\* functions of the same bowl.  Periods are counted in beats.
PlayerRunner == 1

\* PatternInformation: the fields Player reads.  period is the sequence the
\* sender reduces with the iterator (empty: the sender yields no message);
\* send_method's result is drawn at each invocation.
PatA ==
    [name |-> "A", period |-> <<2>>, until |-> NoneF, iterator |-> NoneF,
     iterator_span |-> 1, iterator_limit |-> NoneF, quant |-> 0]
PatB ==
    [name |-> "B", period |-> <<1>>, until |-> NoneF, iterator |-> NoneF,
     iterator_span |-> 1, iterator_limit |-> Some(2), quant |-> 0]
PatC ==
    [name |-> "C", period |-> <<1, 2>>, until |-> Some(2),
     iterator |-> Some(1), iterator_span |-> 1, iterator_limit |-> NoneF,
     quant |-> 0]
PatD ==
    [name |-> "D", period |-> <<>>, until |-> Some(0), iterator |-> NoneF,
     iterator_span |-> 1, iterator_limit |-> NoneF, quant |-> 1]
Patterns == {PatA, PatB, PatC, PatD}

\* What send_method does at one call: returns None, returns 0, returns a
\* duration, or raises.
SendResults == {"none", "zero", "dur", "raise"}
SendDur == 3

\* Python truth of an optional number.
Truthy(o) == o # NoneF /\ Val(o) # 0

\* utils.get_deadline_from_quant (from the spec): no quant, no deadline;
\* else the next grid point of quant beats.
GetDeadlineFromQuant(c, quant) ==
    IF quant = 0
    THEN NoneF
    ELSE Some(FAdd(Time(c), GetBeatTime(c, quant, TRUE)))

\* Player.get_new_period: the period of the first message the sender reduces
\* for the player's iterator, or 1 when it yields none.
GetNewPeriod(pl, pattern) ==
    IF pattern.period = <<>>
    THEN 1
    ELSE pattern.period[(pl.iterator % Len(pattern.period)) + 1]

\* ---------------------------------------- AsyncRunner calls (from the spec)
\* The record Player's methods work on: the scheduler's state st, the
\* runners' loops run, the player pl, and what the call did.
Work ==
    [st |-> Cur, run |-> rn.run, pl |-> rn.pl,
     swims |-> 0, updates |-> 0, ran |-> FALSE, failed |-> FALSE]

\* push(func, ...): a new state on top.
RunnerPush(w, r, state) ==
    [w EXCEPT !.run[r].states = Append(@, state)]

\* push_deferred(deadline, func, ...): as push, the next invocation not
\* before deadline.
RunnerPushDeferred(w, r, deadline, state) ==
    [w EXCEPT !.run[r].states = Append(@, state),
              !.run[r].deferred = deadline]

\* update_state(...): the arguments of the top state are replaced in place.
RunnerUpdateState(w, r, pattern, p) ==
    IF w.run[r].states = <<>>
    THEN w
    ELSE [w EXCEPT !.run[r].states[Len(w.run[r].states)].pattern = pattern,
                   !.run[r].states[Len(w.run[r].states)].p = p,
                   !.updates = @ + 1]

\* swim(): a sleeping loop is woken at once.
RunnerSwim(w, r, t) ==
    [w EXCEPT !.run[r].deadline =
                  IF w.run[r].pc = "sleeping" /\ IsRunning(w.st.task, r)
                  THEN t ELSE @,
              !.swims = @ + 1]

\* The loops see what the scheduler did to their runners: a spawned task
\* starts at the top of the loop, reload() and allow_interval_correction()
\* raise their flags.
AfterScheduler(w) ==
    [w EXCEPT !.run = [r \in Runners |->
        [w.run[r] EXCEPT
            !.pc = IF r \in w.st.spawned THEN "top" ELSE @,
            !.reload = @ \/ w.st.reloadCalls[r] > 0,
            !.allow_correction = @ \/ w.st.correctCalls[r] > 0]]]

\* ------------------------------------------------------------ Player
\* Player.again.
PlayerAgain(w, pattern, p, t) ==
    RunnerSwim(RunnerUpdateState(w, PlayerRunner, pattern, p), PlayerRunner, t)

\* Variant: the sender's result is never used as the period.
FuncPeriod_Pattern(dur, period) == period

\* Player.func, its last four lines: which period goes to again().
FuncPeriod(dur, period) == IF ~Truthy(dur) THEN period ELSE Val(dur)

\* Variant: the state is updated before the sender is called.
PlayerFunc_AgainFirst(w, pattern, res, t) ==
    LET w1 == [w EXCEPT !.pl.iterator_span = pattern.iterator_span,
                        !.pl.iterator_limit = pattern.iterator_limit,
                        !.pl.iterator = IF pattern.iterator # NoneF
                                        THEN Val(pattern.iterator) ELSE @]
        pat == [pattern EXCEPT !.iterator = NoneF]
        w2 == [w1 EXCEPT !.pl.iterator =
                  (IF Truthy(w1.pl.iterator_limit)
                      /\ @ >= Val(w1.pl.iterator_limit)
                   THEN 0 ELSE @) + w1.pl.iterator_span]
        w3 == PlayerAgain(w2, pat, GetNewPeriod(w2.pl, pat), t)
    IN  IF res = "raise"
        THEN [w3 EXCEPT !.ran = TRUE, !.failed = TRUE]
        ELSE [w3 EXCEPT !.ran = TRUE]

\* Player.func(pattern, p), with send_method's result res: "raise" leaves
\* the function at the call of send_method.
PlayerFunc(w, pattern, res, t) ==
    LET w1 == [w EXCEPT !.pl.iterator_span = pattern.iterator_span,
                        !.pl.iterator_limit = pattern.iterator_limit,
                        !.pl.iterator = IF pattern.iterator # NoneF
                                        THEN Val(pattern.iterator) ELSE @,
                        !.ran = TRUE]
        pat == [pattern EXCEPT !.iterator = NoneF]
        held == IF w.run[PlayerRunner].states = <<>>
                THEN w1
                ELSE [w1 EXCEPT !.run[PlayerRunner].states[
                                     Len(w.run[PlayerRunner].states)].pattern
                                     = pat]
        dur == IF res = "dur" THEN Some(SendDur)
               ELSE IF res = "zero" THEN Some(0) ELSE NoneF
        w2 == [held EXCEPT !.pl.iterator =
                  (IF Truthy(w1.pl.iterator_limit)
                      /\ @ >= Val(w1.pl.iterator_limit)
                   THEN 0 ELSE @) + w1.pl.iterator_span]
        period == GetNewPeriod(w2.pl, pat)
    IN  IF res = "raise"
        THEN [held EXCEPT !.failed = TRUE]
        ELSE PlayerAgain(w2, pat, FuncPeriod(dur, period), t)

\* Variant: the counter is tested before it is decremented.
ForRuns_OneMore(left) == left >= 0

\* for_(n), the wrapper: with n calls left before this one, is the body run?
ForRuns(left) == left - 1 >= 0

\* A call of the function of a state of the player: self.func, or self.func
\* under for_(until), whose counter the state carries.
PlayerInvoke(w, state, res, t) ==
    IF state.wrapped
    THEN LET counted ==
                 [w EXCEPT !.run[PlayerRunner].states[
                               Len(w.run[PlayerRunner].states)].left = @ - 1]
         IN  IF ForRuns(state.left)
             THEN PlayerFunc(counted, state.pattern, res, t)
             ELSE counted
    ELSE PlayerFunc(w, state.pattern, res, t)

\* Player.push, its last two lines.
PushStarts(w) ==
    LET started_ == [w EXCEPT !.st = StartRunner(w.st, BowlScheduler,
                                                 PlayerRunner)]
    IN  IF started_.st.err # "none"
        THEN started_
        ELSE [started_ EXCEPT !.st = RunnerReload(@, PlayerRunner)]

\* Variant: a running runner keeps the period of its top state.
PushPeriod_Kept(w, pattern) ==
    IF w.run[PlayerRunner].states = <<>>
    THEN GetNewPeriod(w.pl, pattern)
    ELSE w.run[PlayerRunner].states[Len(w.run[PlayerRunner].states)].p

\* Player.push: the period the pattern is pushed with.
PushPeriod(w, pattern) == GetNewPeriod(w.pl, pattern)

\* The state Player.push pushes for a pattern.
PushedState(w, pattern) ==
    [name |-> pattern.name, pattern |-> pattern,
     p |-> PushPeriod(w, pattern),
     wrapped |-> Truthy(pattern.until),
     left |-> IF Truthy(pattern.until) THEN Val(pattern.until) ELSE 0,
     calls |-> 0, runs |-> 0]

\* Variant: silencing only cancels the runner's task.
PushNone_StopOnly(w) == [w EXCEPT !.st = RunnerStop(@, PlayerRunner)]

\* Player.push(None), and Player.stop.
PushNone(w) == [w EXCEPT !.st = StopRunner(@, BowlScheduler, PlayerRunner)]

\* Player.push(pattern) at a clock c.
PlayerPush(w, pattern, c) ==
    IF pattern = NoneF
    THEN PushNone(w)
    ELSE LET w1 == IF ~IsRunning(w.st.task, PlayerRunner)
                   THEN [w EXCEPT !.pl.iterator = 0,
                                  !.run[PlayerRunner].states = <<>>]
                   ELSE w
             w2 == [w1 EXCEPT !.run[PlayerRunner].interval_shift = 0]
             deadline == GetDeadlineFromQuant(c, pattern.quant)
             state == PushedState(w2, pattern)
             w3 == IF deadline = NoneF
                   THEN RunnerPush(w2, PlayerRunner, state)
                   ELSE RunnerPushDeferred(w2, PlayerRunner, deadline, state)
         IN  PushStarts(w3)

\* ------------------------------------------- the player's state machine
\* Bounds: the depth of a runner's state stack, and the length of a run in
\* ticks (half seconds for the player, tenths for the tempo change).
MaxStates == 2
MaxCalls == 2
MaxPlayTicks == 5
MaxTempoTicks == 45


\* A bowl that was started at time 0 with one scheduler: the clock runs and
\* the scheduler is subscribed to tempo_update.
PlayInit(tempo) ==
    /\ RunnersInit
    /\ bowl = [BowlNew EXCEPT !.state = "running",
                              !.handlers = {"scheduler"},
                              !.tempo_subs = <<"scheduler">>]
    /\ clock = RunStep(HookStart(ClockNew(tempo)), 0)
    /\ now = 0
    /\ cl = ClNone(clock)

Top(r) == rn.run[r].states[Len(rn.run[r].states)]

Registered(r) == DictGet(runners[BowlScheduler], NameOf(r)) = r

\* The loop of r sleeps and its deadline has come.
Due(r) ==
    /\ task[r] = "running"
    /\ rn.run[r].pc = "sleeping"
    /\ rn.run[r].deadline <= Time(clock)

HistOf(op, r) ==
    [rn.h EXCEPT !.op = op, !.r = r,
                 !.calls = IF op \in {"push", "swim", "stop", "tempo"}
                          THEN @ + 1 ELSE @,
                 !.pattern = "", !.res = "",
                 !.err = "none", !.spawned = {},
                 !.wasRunning = task[r] = "running",
                 !.wasRegistered = Registered(r),
                 !.ran = FALSE, !.failed = FALSE, !.swims = 0, !.updates = 0,
                 !.iterator = rn.pl.iterator,
                 !.preStates = rn.run[r].states, !.preTask = task[r],
                 !.preRun = rn.run]

\* player.push(pattern), player.push(None).
PlayerPushOf(pats) ==
    \E pattern \in pats :
        LET w == AfterScheduler(PlayerPush(Work, pattern, clock))
        IN  /\ rn.h.calls < MaxCalls
            /\ pattern # NoneF /\ task[PlayerRunner] # "idle"
                => Len(rn.run[PlayerRunner].states) < MaxStates
            /\ CommitScheduler("player_push", BowlScheduler, PlayerRunner,
                               "", w.st)
            /\ rn' = [run |-> w.run, pl |-> w.pl,
                      h |-> [HistOf("push", PlayerRunner) EXCEPT
                                !.pattern = IF pattern = NoneF THEN "none"
                                            ELSE pattern.name,
                                !.err = w.st.err,
                                !.spawned = w.st.spawned,
                                !.pushed = IF pattern = NoneF THEN @
                                           ELSE pattern.name,
                                !.over =
                                    IF pattern = NoneF THEN @
                                    ELSE IF rn.h.inv[PlayerRunner] = NoneF
                                    THEN ""
                                    ELSE Val(rn.h.inv[PlayerRunner]).name,
                                !.chg = NoneF,
                                !.inv[PlayerRunner] =
                                    IF pattern = NoneF THEN @ ELSE NoneF,
                                !.prevInv[PlayerRunner] =
                                    IF pattern = NoneF THEN @ ELSE NoneF,
                                !.since[PlayerRunner] = @ \cup {"push"}]]
            /\ UNCHANGED <<clock, now, cl, bowl>>

\* A swimming function is started on another runner.
SwimStart ==
    \E r \in Runners \ {PlayerRunner} :
        LET pushed == RunnerPush(Work, r,
                              [name |-> "X", pattern |-> PatA, p |-> 2,
                               wrapped |-> FALSE, left |-> 0,
                               calls |-> 0, runs |-> 0])
            w == AfterScheduler(
                     [pushed EXCEPT !.st = StartRunner(@, BowlScheduler, r)])
        IN  /\ rn.h.calls < MaxCalls
            /\ rn.run[r].states = <<>>
            /\ CommitScheduler("start_runner", BowlScheduler, r, "", w.st)
            /\ rn' = [run |-> w.run, pl |-> w.pl,
                      h |-> [HistOf("swim", r) EXCEPT
                                !.err = w.st.err,
                                !.spawned = w.st.spawned,
                                !.since[r] = @ \cup {"push"}]]
            /\ UNCHANGED <<clock, now, cl, bowl>>

\* A swimming function is stopped.
SwimStop ==
    \E r \in Runners \ {PlayerRunner} :
        /\ rn.h.calls < MaxCalls
        /\ CommitScheduler("stop_runner", BowlScheduler, r, "",
                           StopRunner(Cur, BowlScheduler, r))
        /\ rn' = [rn EXCEPT !.h = HistOf("stop", r)]
        /\ UNCHANGED <<clock, now, cl, bowl>>

\* The tempo is set while runners swim.
PlaySetTempo ==
    \E x \in Tempos :
        LET w == AfterScheduler([Work EXCEPT !.st = TempoSet(x).res.st])
        IN  /\ rn.h.calls < MaxCalls
            /\ BowlSetsTempo(x)
            /\ rn' = [run |-> w.run, pl |-> w.pl,
                      h |-> [HistOf("tempo", PlayerRunner) EXCEPT
                                !.changes =
                                    IF TempoSet(x).set.dispatched # <<>>
                                    THEN @ + 1 ELSE @,
                                !.chg =
                                    IF TempoSet(x).set.dispatched = <<>>
                                    THEN @
                                    ELSE Some(
                                        [at |-> Time(clock), tempo |-> x,
                                         inv |-> rn.h.inv[PlayerRunner],
                                         swimming |->
                                             /\ task[PlayerRunner] = "running"
                                             /\ rn.run[PlayerRunner].pc
                                                    = "sleeping",
                                         due |-> Due(PlayerRunner),
                                         D |-> rn.run[PlayerRunner].deadline]),
                                !.since = [r \in Runners |->
                                    IF x # clock.tempo
                                    THEN rn.h.since[r] \cup {"tempo"}
                                    ELSE rn.h.since[r]]]]
            /\ UNCHANGED now

\* Core loop, step 1: the task ends when a stop was requested or the stack
\* is empty.
LoopExit ==
    \E r \in Runners :
        /\ \/ task[r] = "cancelling"
           \/ task[r] = "running" /\ rn.run[r].pc = "top"
                                  /\ rn.run[r].states = <<>>
        /\ CommitScheduler("task_exit", None, r, "",
                           [Cur EXCEPT !.task[r] = "idle"])
        /\ rn' = [rn EXCEPT !.h = HistOf("exit", r)]
        /\ UNCHANGED <<clock, now, cl, bowl>>

\* Core loop, step 2: the next deadline of a runner whose top state has
\* period p.
Deadline(c, ru, p) ==
    IF ru.deferred # NoneF
    THEN Val(ru.deferred)
    ELSE FAdd(FAdd(Time(c), GetBeatTime(c, p, ru.allow_correction)),
              ru.interval_shift)

\* Core loop, steps 2 and 3: the deadline is computed from the top state and
\* the loop goes to sleep.
LoopTop ==
    \E r \in Runners :
        LET ru == rn.run[r]
            D == Deadline(clock, ru, Top(r).p)
        IN  /\ task[r] = "running"
            /\ ru.pc = "top"
            /\ ru.states # <<>>
            /\ rn' = [rn EXCEPT
                        !.run[r] = [ru EXCEPT
                            !.pc = "sleeping",
                            !.deadline = D,
                            !.deferred = NoneF,
                            !.interval_shift =
                                IF ru.deferred # NoneF THEN @ ELSE 0,
                            !.allow_correction =
                                IF ru.deferred # NoneF THEN @ ELSE FALSE,
                            !.reload = FALSE],
                        !.h = [HistOf("top", r) EXCEPT
                            !.fixes = IF /\ r = PlayerRunner
                                         /\ ru.allow_correction
                                         /\ ru.deferred = NoneF
                                      THEN @ + 1 ELSE @,
                            !.sched[r] = Some(
                                [at |-> Time(clock), D |-> D,
                                 p |-> Top(r).p, name |-> Top(r).name,
                                 tempo |-> clock.tempo,
                                 corrected |-> ru.allow_correction
                                               /\ ru.deferred = NoneF,
                                 deferred |-> ru.deferred # NoneF,
                                 after |-> rn.h.op,
                                 afterFailed |-> /\ rn.h.op = "invoke"
                                                 /\ rn.h.r = r
                                                 /\ rn.h.failed])]]
            /\ UNCHANGED <<clock, now, cl, bowl,
                           runners, scheduler, task, started, last, pre>>

\* reload() reaches a sleeping loop: it goes back to the top.
LoopReload ==
    \E r \in Runners :
        /\ task[r] = "running"
        /\ rn.run[r].pc = "sleeping"
        /\ rn.run[r].reload
        /\ rn' = [rn EXCEPT !.run[r].pc = "top",
                            !.h = HistOf("reload", r)]
        /\ UNCHANGED <<clock, now, cl, bowl,
                       runners, scheduler, task, started, last, pre>>

\* Core loop, steps 4 to 6: the deadline is reached, the function of the top
\* state is called, and the loop goes round.
InvokeOf(results) ==
    \E r \in Runners, res \in results :
        LET called == [Work EXCEPT !.run[r].pc = "called"]
            w == IF r = PlayerRunner
                 THEN PlayerInvoke(called, Top(r), res, Time(clock))
                 ELSE called
            n == Len(rn.run[r].states)
        IN  /\ Due(r)
            /\ r # PlayerRunner => res = "none"
            /\ rn' = [run |-> [w.run EXCEPT
                                  ![r].pc = "top",
                                  ![r].states[n].calls = @ + 1,
                                  ![r].states[n].runs =
                                      IF w.ran THEN @ + 1 ELSE @],
                      pl |-> w.pl,
                      h |-> [HistOf("invoke", r) EXCEPT
                                !.pattern = Top(r).name,
                                !.res = res,
                                !.ran = w.ran,
                                !.failed = w.failed,
                                !.swims = w.swims,
                                !.updates = w.updates,
                                !.inv[r] = Some(
                                    [name |-> Top(r).name, p |-> Top(r).p,
                                     at |-> Time(clock),
                                     tempo |-> clock.tempo,
                                     iterator |-> rn.pl.iterator,
                                     how |-> Val(rn.h.sched[r]),
                                     since |-> rn.h.since[r]]),
                                !.prevInv[r] = rn.h.inv[r],
                                !.since[r] =
                                    IF w.failed THEN {"fail"}
                                    ELSE IF w.run[r].states[n].p # Top(r).p
                                    THEN {"period"} ELSE {}]]
            /\ UNCHANGED <<clock, now, cl, bowl,
                           runners, scheduler, task, started, last, pre>>

\* Time passes, and the clock's run() follows it, once nothing is left to do
\* at this instant: every loop sleeps towards a deadline that lies ahead.
TickOf(len, max) ==
    /\ \A r \in Runners :
          /\ task[r] # "cancelling"
          /\ task[r] = "running" =>
                /\ rn.run[r].pc = "sleeping"
                /\ ~rn.run[r].reload
                /\ rn.run[r].deadline > Time(clock)
    /\ now + len <= max * len
    /\ now' = now + len
    /\ clock' = RunStep(clock, now + len)
    /\ rn' = [rn EXCEPT !.h = HistOf("tick", PlayerRunner)]
    /\ UNCHANGED <<cl, bowl, runners, scheduler, task, started, last, pre>>

\* The player and the swimming functions of one bowl, at tempo 120.

PlayerNext ==
    \/ PlayerPushOf(Patterns \cup {NoneF})
    \/ SwimStart
    \/ SwimStop
    \/ LoopExit
    \/ LoopTop
    \/ LoopReload
    \/ InvokeOf(SendResults)
    \/ TickOf(5 * OneTenth, MaxPlayTicks)

SpecPlayer == PlayInit(120) /\ [][PlayerNext]_vars

\* A player whose pattern has a period of one beat, at tempo 60, while the
\* tempo is changed.

TempoNext ==
    \/ PlayerPushOf({PatB, NoneF})
    \/ PlaySetTempo
    \/ LoopExit
    \/ LoopTop
    \/ LoopReload
    \/ InvokeOf({"none"})
    \/ TickOf(OneTenth, MaxTempoTicks)

SpecTempo == PlayInit(60) /\ [][TempoNext]_vars

\* ---------------------------------------------------------------- C23
\* C23: a pattern pushed onto the player's running runner spawns no task and
\* goes on top of the stack; every invocation after the push runs the pushed
\* pattern, the first of them with the period the pattern yields for the
\* player's iterator; and two invocations with no push between them are one
\* interval of the invoked period apart, unless the deadline of the second
\* was a deferred one.
C23_HotSwap ==
    /\ /\ rn.h.op = "push"
       /\ rn.h.pattern # "none"
       /\ rn.h.wasRunning
       => /\ rn.h.spawned = {}
          /\ rn.h.err = "none"
          /\ task[PlayerRunner] = "running"
          /\ Len(rn.run[PlayerRunner].states) = Len(rn.h.preStates) + 1
          /\ Top(PlayerRunner).name = rn.h.pattern
    /\ rn.h.inv[PlayerRunner] # NoneF
       => LET inv == Val(rn.h.inv[PlayerRunner])
          IN  /\ inv.name = rn.h.pushed
              /\ rn.h.prevInv[PlayerRunner] = NoneF
                 => inv.p = GetNewPeriod([iterator |-> inv.iterator],
                                         CHOOSE pat \in Patterns :
                                           pat.name = rn.h.pushed)
              /\ /\ rn.h.prevInv[PlayerRunner] # NoneF
                 /\ ~inv.how.deferred
                 /\ "tempo" \notin inv.since
                 => inv.at = FAdd(Val(rn.h.prevInv[PlayerRunner]).at,
                                  GetBeatTime(clock, inv.p, FALSE))

\* B, of period one beat, was pushed over A, of period two, after A had been
\* invoked, and has been invoked twice since, half a second apart.
C23_Witness ==
    /\ rn.h.over = "A"
    /\ rn.h.pushed = "B"
    /\ Len(rn.run[PlayerRunner].states) = 2
    /\ rn.h.inv[PlayerRunner] # NoneF
    /\ rn.h.prevInv[PlayerRunner] # NoneF
    /\ Val(rn.h.inv[PlayerRunner]).name = "B"
    /\ Val(rn.h.prevInv[PlayerRunner]).name = "B"
    /\ Val(rn.h.inv[PlayerRunner]).at
           = Val(rn.h.prevInv[PlayerRunner]).at + 5 * OneTenth

\* ---------------------------------------------------------------- C24
\* The first point after t of the grid of one beat at a tempo.
NextGrid(t, tempo) ==
    ((t \div ((60 * OneSec) \div tempo)) + 1) * ((60 * OneSec) \div tempo)

\* C24: when the tempo is changed while the player's runner sleeps towards
\* its next invocation of a pattern of one beat, the first invocation after
\* the change is at the next grid point of the new beat, not at the deadline
\* the runner slept towards (an invocation due at the very instant of the
\* change may still be made, and the next is at the grid point); a deadline
\* computed with the correction leaves the flag down, and no more deadlines
\* are corrected than tempo changes were dispatched.
C24_TempoCorrection ==
    /\ /\ rn.h.chg # NoneF
       /\ Val(rn.h.chg).swimming
       /\ rn.h.inv[PlayerRunner] # Val(rn.h.chg).inv
       => LET chg == Val(rn.h.chg)
              inv == Val(rn.h.inv[PlayerRunner])
              prev == rn.h.prevInv[PlayerRunner]
          IN  /\ prev = chg.inv
                 => \/ inv.at = NextGrid(chg.at, chg.tempo)
                    \/ chg.due /\ inv.at = chg.at
              /\ prev # chg.inv /\ Val(prev).at = chg.at
                 => inv.at = NextGrid(chg.at, chg.tempo)
    /\ /\ rn.h.op = "top"
       /\ rn.h.r = PlayerRunner
       /\ Val(rn.h.sched[PlayerRunner]).corrected
       => ~rn.run[PlayerRunner].allow_correction
    /\ rn.h.fixes <= rn.h.changes

\* The runner was invoked at 1.4 s, 2.4 s and 3.4 s at tempo 60 and slept
\* towards 4.4 s; the tempo was set to 120 at 3.4 s, and the next invocation
\* was at 3.5 s.
C24_Witness ==
    /\ rn.h.chg # NoneF
    /\ Val(rn.h.chg).at = 34 * OneTenth
    /\ Val(rn.h.chg).tempo = 120
    /\ Val(rn.h.chg).D = 44 * OneTenth
    /\ ~Val(rn.h.chg).due
    /\ rn.h.prevInv[PlayerRunner] = Val(rn.h.chg).inv
    /\ rn.h.prevInv[PlayerRunner] # NoneF
    /\ Val(rn.h.prevInv[PlayerRunner]).at = 34 * OneTenth
    /\ rn.h.inv[PlayerRunner] # NoneF
    /\ Val(rn.h.inv[PlayerRunner]).at = 35 * OneTenth
    /\ now = 35 * OneTenth

\* ---------------------------------------------------------------- C25
\* What the runner holds of a state: its function and arguments, without the
\* counters of the calls made and without the pattern's own iterator, which
\* Player.func consumes before it calls the sender.
Held(state) ==
    [name |-> state.name, p |-> state.p, wrapped |-> state.wrapped,
     pattern |-> [state.pattern EXCEPT !.iterator = NoneF]]

\* C25: after an invocation of the player's pattern in which the sender
\* raised, the runner's task still runs and the runner is still registered,
\* its stack holds the states it held, the loop is at the top with a state to
\* schedule, and the other runners are as they were; the deadline computed
\* next is one interval of the top state's period after the failure.
C25_FailureKeepsRunner ==
    /\ /\ rn.h.op = "invoke"
       /\ rn.h.r = PlayerRunner
       /\ rn.h.failed
       => /\ task[PlayerRunner] = "running"
          /\ Registered(PlayerRunner)
          /\ Len(rn.run[PlayerRunner].states) = Len(rn.h.preStates)
          /\ \A i \in 1..Len(rn.h.preStates) :
                Held(rn.run[PlayerRunner].states[i]) = Held(rn.h.preStates[i])
          /\ rn.h.swims = 0 /\ rn.h.updates = 0
          /\ rn.run[PlayerRunner].pc = "top"
          /\ rn.run[PlayerRunner].states # <<>>
          /\ \A r \in Runners \ {PlayerRunner} : rn.run[r] = rn.h.preRun[r]
    /\ /\ rn.h.op = "top"
       /\ rn.h.r = PlayerRunner
       /\ Val(rn.h.sched[PlayerRunner]).afterFailed
       /\ ~Val(rn.h.sched[PlayerRunner]).deferred
       => LET sched == Val(rn.h.sched[PlayerRunner])
              inv == Val(rn.h.inv[PlayerRunner])
          IN  /\ sched.p = inv.p
              /\ sched.name = inv.name
              /\ sched.D = FAdd(inv.at, GetBeatTime(clock, inv.p, FALSE))

\* The sender raised in the second invocation of C, whose period was due to
\* change, while another runner was asleep; the next deadline was computed.
C25_Witness ==
    /\ rn.h.op = "top"
    /\ rn.h.r = PlayerRunner
    /\ Val(rn.h.sched[PlayerRunner]).afterFailed
    /\ Val(rn.h.sched[PlayerRunner]).name = "C"
    /\ Top(PlayerRunner).calls = 2
    /\ \E r \in Runners \ {PlayerRunner} :
          task[r] = "running" /\ rn.run[r].pc = "sleeping"

\* ---------------------------------------------------------------- C26
\* C26: player.push(None) raises nothing, leaves the player's runner out of
\* the scheduler's map with no task that will run on, spawns nothing and
\* leaves the runner's stack as it was, whatever the state of the player:
\* never started, swimming, silenced before, or shut out by a runner of the
\* same name.
C26_PushNoneSilences ==
    /\ rn.h.op = "push"
    /\ rn.h.pattern = "none"
    => /\ rn.h.err = "none"
       /\ ~Registered(PlayerRunner)
       /\ PlayerRunner \notin started[BowlScheduler]
       /\ task[PlayerRunner] # "running"
       /\ rn.h.preTask = "idle" => task[PlayerRunner] = "idle"
       /\ rn.h.spawned = {}
       /\ rn.run[PlayerRunner].states = rn.h.preStates
       /\ rn.pl.iterator = rn.h.iterator

\* A swimming player with a pattern on its stack was silenced.
C26_Witness ==
    /\ rn.h.op = "push"
    /\ rn.h.pattern = "none"
    /\ rn.h.wasRunning
    /\ rn.h.wasRegistered
    /\ rn.h.preStates # <<>>
    /\ task[PlayerRunner] = "cancelling"

\* ---------------------------------------------------------------- C27
\* C27: a state of the player pushed with until = n has run Player.func in
\* the first n of the calls made of it and in no other; a call after the
\* n-th updates no state, wakes no runner and leaves the player's iterator
\* alone.
C27_ForRunsNTimes ==
    /\ \A i \in 1..Len(rn.run[PlayerRunner].states) :
          LET state == rn.run[PlayerRunner].states[i]
              n == Val(state.pattern.until)
          IN  state.wrapped
              => /\ state.runs = IF state.calls <= n THEN state.calls ELSE n
                 /\ state.left = n - state.calls
    /\ /\ rn.h.op = "invoke"
       /\ rn.h.r = PlayerRunner
       /\ Top(PlayerRunner).wrapped
       /\ Top(PlayerRunner).calls > Val(Top(PlayerRunner).pattern.until)
       => /\ ~rn.h.ran
          /\ rn.h.swims = 0
          /\ rn.h.updates = 0
          /\ rn.pl.iterator = rn.h.iterator
          /\ Held(Top(PlayerRunner))
                = Held(rn.h.preStates[Len(rn.h.preStates)])

\* C, pushed with until = 2, was called a third time and did not run.
C27_Witness ==
    /\ rn.h.op = "invoke"
    /\ rn.h.r = PlayerRunner
    /\ Top(PlayerRunner).name = "C"
    /\ Top(PlayerRunner).calls = 3
    /\ Top(PlayerRunner).runs = 2
    /\ ~rn.h.ran

\* ---------------------------------------------------------------- C28
\* C28: an invocation of Player.func in which the sender returned updates the
\* top state once and wakes the runner once; the period of the top state is
\* then what the sender returned if that is a number other than zero, and
\* else the period the pattern yields for the player's iterator.
C28_FuncPeriod ==
    /\ rn.h.op = "invoke"
    /\ rn.h.r = PlayerRunner
    /\ rn.h.ran
    /\ ~rn.h.failed
    => /\ rn.h.updates = 1
       /\ rn.h.swims = 1
       /\ Len(rn.run[PlayerRunner].states) = Len(rn.h.preStates)
       /\ Top(PlayerRunner).p =
              IF rn.h.res = "dur"
              THEN SendDur
              ELSE GetNewPeriod(rn.pl, Top(PlayerRunner).pattern)

\* The sender returned a duration of three beats to a pattern whose period
\* is two.
C28_Witness ==
    /\ rn.h.op = "invoke"
    /\ rn.h.r = PlayerRunner
    /\ rn.h.res = "dur"
    /\ Top(PlayerRunner).name = "A"
    /\ rn.h.preStates[Len(rn.h.preStates)].p = 2
    /\ Top(PlayerRunner).p = SendDur

\* ---------------------------------------------------------------- C29
\* C29: at every tempo above 0 and every bar length of at least 1, for every
\* time and shift of the clock, the phase is at least 0 and below
\* beat_duration, and beat mod beats_per_bar is at least 0 and below
\* beats_per_bar.
C29_PhaseAndBeatInRange ==
    clock.tempo > 0 /\ clock.beats_per_bar >= 1
    => /\ 0 <= Phase(clock)
       /\ Phase(clock) < BeatDuration(clock)
       /\ 0 <= BeatInBar(clock)
       /\ BeatInBar(clock) < clock.beats_per_bar

\* A shift has put the clock a quantum before time 0: the beat is -1, the
\* third of a bar of three, and the float modulus is beat_duration itself.
C29_Witness ==
    /\ ShiftedTime(clock) < 0
    /\ Beat(clock) = -1
    /\ clock.beats_per_bar = 3
    /\ BeatInBar(clock) = 2
    /\ PhaseRaw(clock) = BeatDuration(clock)
    /\ Phase(clock) = 0

\* ---------------------------------------------------------------- C30
\* C30: a tempo of 0 or less, or a bar length below 1, is never assigned: the
\* setter raises, the clock is what it was, nothing is dispatched, and
\* get_beat_time answers as before the call.
C30_InvalidArgumentRejected ==
    /\ cl.op = "set_tempo" => cl.arg > 0
    /\ cl.op = "set_beats_per_bar" => cl.arg >= 1
    /\ cl.op = "set_tempo_raised" => cl.arg <= 0
    /\ cl.op = "set_beats_per_bar_raised" => cl.arg < 1
    /\ cl.op \in {"set_tempo_raised", "set_beats_per_bar_raised"}
       => /\ cl.err = "value_error"
          /\ clock = cl.pre
          /\ cl.dispatched = <<>>
          /\ \A n \in NBeats, sync \in BOOLEAN :
                GetBeatTime(clock, n, sync) = GetBeatTime(cl.pre, n, sync)

\* The tempo of a clock at tempo 120 was set to 0.
C30_Witness ==
    /\ cl.op = "set_tempo_raised"
    /\ cl.arg = 0
    /\ cl.pre.tempo = 120
    /\ clock.tempo = 120

\* ---------------------------------------------------------------- C31
\* C31: every runner in a scheduler's dict has that scheduler as its
\* back-reference, so no runner is in the dicts of two schedulers at once.
C31_BackReferenceMatchesDict ==
    /\ \A s \in Schedulers : \A r \in DictValueSet(runners[s]) :
          scheduler[r] = s
    /\ \A s1, s2 \in Schedulers :
          s1 # s2 => DictValueSet(runners[s1]) \cap DictValueSet(runners[s2]) = {}

\* ---------------------------------------------------------------- C32
\* C32: while the last life-cycle event the clock handled is start or resume,
\* the clock has a run() task that is live and not about to be cancelled.
C32_StartedClockHasLiveTask ==
    cl.ev \in {"start", "resume"} => clock.run_task \in {"spawned", "running"}

C34_PlayerPush ==
    (rn.h.op = "push" /\ rn.h.pattern # "none")
    => LET r == PlayerRunner
           pattern == CHOOSE pat \in Patterns : pat.name = rn.h.pattern
           states == rn.run[r].states
           wasRunning == IsRunning(pre.task, r)
       IN  /\ states # <<>>
           /\ Top(r).name = rn.h.pattern
           /\ ~wasRunning => rn.pl.iterator = 0 /\ Len(states) = 1
           /\ wasRunning => /\ rn.pl.iterator = rn.h.iterator
                            /\ states = Append(rn.h.preStates, Top(r))
           /\ rn.run[r].interval_shift = 0
           /\ rn.run[r].deferred =
                 IF pattern.quant # 0
                 THEN GetDeadlineFromQuant(clock, pattern.quant)
                 ELSE rn.h.preRun[r].deferred
           /\ pattern.quant # 0 => rn.run[r].deferred # NoneF
           /\ Registered(r)
           /\ scheduler[r] = BowlScheduler
           /\ IsRunning(task, r)
           /\ last.reloadCalls[r] = 1
           /\ rn.run[r].reload

\* ---------------------------------------------------------------- C35
\* C35: for n > 0, get_beat_time(n, sync=true) is above 0 and at most the
\* interval beat_duration * n, and it is the whole interval when
\* shifted_time is a multiple of the interval (0 and negative ones too).
C35_BeatTimeInRange ==
    LET interval == Rnd(RoundRat(60 * OneSec, clock.tempo) * cl.arg)
        st == Rnd(clock.origin + clock.shift)
    IN  (cl.op = "get_beat_time" /\ cl.arg > 0 /\ cl.sync)
        => /\ Val(cl.ret) > 0
           /\ Val(cl.ret) <= interval
           /\ st % interval = 0 => Val(cl.ret) = interval

\* ---------------------------------------------------------------- C36
\* C36: of the run() tasks the clock has created, at most one has not ended,
\* and it is the one the clock refers to; a pause leaves the task as it is.
C36_OneRunTask ==
    /\ cl.alive <= 1
    /\ cl.alive = IF IsRunningClock(clock) THEN 1 ELSE 0
    /\ (cl.op = "hook" /\ cl.ev = "pause") => clock.run_task = cl.pre.run_task

\* A start reached the clock while the task cancelled by a stop had not
\* ended: no second task was created next to it.
C36_Witness ==
    /\ cl.op = "hook"
    /\ cl.ev = "start"
    /\ cl.pre.run_task = "cancelling"
    /\ clock.run_task = "cancelling"
    /\ cl.alive = 1

\* ---------------------------------------------------------------- C37
\* C37: a pause or a stop handled by a clock that is frozen already (paused,
\* stopped, or never started) leaves Time.origin, internal_origin and the
\* value of time as they were, and the clock frozen.
C37_FrozenPauseStopKeepsTime ==
    (/\ cl.op = "hook"
     /\ cl.ev \in {"pause", "stop"}
     /\ cl.pre.time_is_origin)
    => /\ clock.origin = cl.pre.origin
       /\ clock.internal_origin = cl.pre.internal_origin
       /\ Time(clock) = cl.prevTime
       /\ clock.time_is_origin

\* A second pause, two seconds or more after the first, on a clock whose
\* run() task has gone on updating internal_time.
C37_Witness ==
    /\ cl.op = "hook"
    /\ cl.ev = "pause"
    /\ cl.pre.time_is_origin
    /\ cl.pre.run_task = "running"
    /\ cl.pre.internal_origin # NoneF
    /\ Val(cl.pre.internal_time) - Val(cl.pre.internal_origin)
          >= cl.pre.origin + 2 * OneSec
    /\ cl.pre.origin = OneSec
    /\ Time(clock) = OneSec

====
